---- MODULE Spec2Model ----
(***************************************************************************)
(* Model of create_bricks (convert_to_bricks.py): the build of a bricked   *)
(* multi-resolution volume.  The state is the local state of one call of   *)
(* create_bricks together with the output directory it writes into; the    *)
(* directory outlives a call, so a later call finds the files of an        *)
(* earlier one.  Spec follows shapes, loop counters, metadata records and   *)
(* file lengths for every input within the bounds, write failures and      *)
(* reruns included; DataSpec follows in addition the sample values of a    *)
(* build, in exact arithmetic, for a family of small volumes.              *)
(***************************************************************************)
EXTENDS Integers, Sequences, FiniteSets, TLC

\* ---- bounds of the model ----
MaxDim == 3
MaxBrick == 2
MaxLevels == 2
MaxBuilds == 2

\* ---- constants of the file format ----
HeaderBytes == 12
SampleBytes == 4

VARIABLES
    pc,             \* position of the call of create_bricks
    build,          \* number of calls of create_bricks started so far
    shape,          \* data.shape of the input array
    brick_size,     \* the brick_size argument (bx, by, bz)
    num_levels,     \* the num_levels argument
    original_shape, \* data.shape after normalize_data; << >> before it returned
    level,          \* the loop variable of "for level in range(num_levels)"
    cur_shape,      \* current_data.shape
    ix, iy, iz,     \* the loop variables of the three brick loops
    levels_info,    \* list of LevelInfo
    all_bricks,     \* list of BrickInfo
    files,          \* brick files of the output directory: path -> file
    manifest,       \* manifest.json of the output directory
    error,          \* the exception that ended the call, "none" when there is none
    data,           \* the samples of the input array; << >> where Spec does not follow them
    normalized,     \* the samples normalize_data returned
    current_data,   \* the samples of current_data
    payloads,       \* the samples brick_data.tofile wrote: path -> sequence
    norm_calls      \* number of calls of normalize_data in the running call

vars == <<pc, build, shape, brick_size, num_levels, original_shape, level,
          cur_shape, ix, iy, iz, levels_info, all_bricks, files, manifest, error,
          data, normalized, current_data, payloads, norm_calls>>

samples == <<data, normalized, current_data, payloads, norm_calls>>

locals == <<original_shape, level, cur_shape, ix, iy, iz, levels_info, all_bricks>>
args == <<shape, brick_size, num_levels>>

\* ---- helpers ----
Min(a, b) == IF a <= b THEN a ELSE b

\* the scale factor as twice the level instead of the power of two
Pow2Linear(k) == 2 * k

RECURSIVE Pow2(_)
Pow2(k) == IF k = 0 THEN 1 ELSE 2 * Pow2(k - 1)

Prod(t) == t[1] * t[2] * t[3]

\* downsample_volume with the truncation but without the division by factor
DownsampleShapeNoDivide(s, factor) ==
    IF factor <= 1 THEN s
    ELSE <<(s[1] \div factor) * factor, (s[2] \div factor) * factor,
           (s[3] \div factor) * factor>>

\* shape of downsample_volume(data, factor) for a 3-dimensional data
DownsampleShape(s, factor) ==
    IF factor <= 1 THEN s
    ELSE LET nx == (s[1] \div factor) * factor
             ny == (s[2] \div factor) * factor
             nz == (s[3] \div factor) * factor
         IN  <<nx \div factor, ny \div factor, nz \div factor>>

\* the brick count rounded down instead of up
NumBricksAxisFloor(n, b) == n \div b

\* number of bricks along one axis
NumBricksAxis(n, b) == (n + b - 1) \div b

NumBricks(s, bs) ==
    <<NumBricksAxis(s[1], bs[1]), NumBricksAxis(s[2], bs[2]), NumBricksAxis(s[3], bs[3])>>

\* the slice bounds without the min against the level dimension
SliceBoundsNoClamp(i, b, n) == <<i * b, (i + 1) * b>>

\* slice bounds <<x0, x1>> of brick i along one axis
SliceBounds(i, b, n) == <<i * b, Min((i + 1) * b, n)>>

\* brick_data.shape of current_data[x0:x1, y0:y1, z0:z1]
BrickShape(cx, cy, cz, bs, s) ==
    <<SliceBounds(cx, bs[1], s[1])[2] - SliceBounds(cx, bs[1], s[1])[1],
      SliceBounds(cy, bs[2], s[2])[2] - SliceBounds(cy, bs[2], s[2])[1],
      SliceBounds(cz, bs[3], s[3])[2] - SliceBounds(cz, bs[3], s[3])[1]>>

\* the payload without the padding step
PayloadSamplesNoPad(bshape, bs) == Prod(bshape)

\* number of samples brick_data.tofile writes, after the padding step
PayloadSamples(bshape, bs) ==
    IF bshape # bs THEN Prod(bs) ELSE Prod(bshape)

\* the path without the y coordinate
FileNameNoY(lv, cx, cy, cz) ==
    "level_" \o ToString(lv) \o "/" \o
    "brick_" \o ToString(cx) \o "_" \o ToString(cz) \o ".bin"

\* the path of a brick file relative to the output directory
FileName(lv, cx, cy, cz) ==
    "level_" \o ToString(lv) \o "/" \o
    "brick_" \o ToString(cx) \o "_" \o ToString(cy) \o "_" \o ToString(cz) \o ".bin"

RECURSIVE SumByteSize(_)
SumByteSize(bricks) ==
    IF bricks = << >> THEN 0
    ELSE bricks[1].byte_size + SumByteSize(Tail(bricks))

NoManifest == [state |-> "absent", doc |-> << >>, by |-> 0]

\* the manifest dictionary with a total that counts the payloads only
ManifestDocPayloadTotal ==
    [original_dimensions |-> original_shape,
     brick_size          |-> brick_size,
     num_levels          |-> num_levels,
     levels              |-> levels_info,
     bricks              |-> all_bricks,
     total_size_bytes    |-> Len(all_bricks) * SampleBytes * Prod(brick_size)]

\* the manifest dictionary
ManifestDoc ==
    [original_dimensions |-> original_shape,
     brick_size          |-> brick_size,
     num_levels          |-> num_levels,
     levels              |-> levels_info,
     bricks              |-> all_bricks,
     total_size_bytes    |-> SumByteSize(all_bricks)]

Shapes ==
    {<<a, b, c>> : a \in 0..MaxDim, b \in 0..MaxDim, c \in 0..MaxDim}
    \cup {<<a, b>> : a \in 1..MaxDim, b \in 1..MaxDim}

BrickSizes == {<<a, b, c>> : a \in 1..MaxBrick, b \in 1..MaxBrick, c \in 1..MaxBrick}

\* no call yet, an empty output directory
NoCall ==
    /\ pc = "Idle"
    /\ build = 0
    /\ shape \in Shapes
    /\ brick_size \in BrickSizes
    /\ num_levels \in 0..MaxLevels
    /\ original_shape = << >>
    /\ level = 0
    /\ cur_shape = << >>
    /\ ix = 0 /\ iy = 0 /\ iz = 0
    /\ levels_info = << >>
    /\ all_bricks = << >>
    /\ files = << >>
    /\ manifest = NoManifest
    /\ error = "none"

\* no sample is followed
NoSamples ==
    /\ data = << >>
    /\ normalized = << >>
    /\ current_data = << >>
    /\ payloads = << >>
    /\ norm_calls = 0

\* ---- initial state of Spec ----
Init == NoCall /\ NoSamples

\* ---- actions ----

\* entry of create_bricks: os.makedirs(output_dir, exist_ok=True) accepts a
\* directory that exists, so the command can be run again on the directory
\* of a completed build
CreateBricks ==
    /\ pc \in {"Idle", "Done"}
    /\ build < MaxBuilds
    /\ build' = build + 1
    /\ pc' = "Normalizing"
    /\ original_shape' = << >>
    /\ level' = 0
    /\ cur_shape' = << >>
    /\ ix' = 0 /\ iy' = 0 /\ iz' = 0
    /\ levels_info' = << >>
    /\ all_bricks' = << >>
    /\ error' = "none"
    /\ UNCHANGED <<args, files, manifest>>

\* data = normalize_data(data): the reductions raise on an array with no
\* element; otherwise the result has the shape of the input
NormalizeData ==
    /\ pc = "Normalizing"
    /\ IF \E i \in 1..Len(shape) : shape[i] = 0
       THEN /\ pc' = "Aborted"
            /\ error' = "ValueError"
            /\ UNCHANGED original_shape
       ELSE /\ pc' = "LevelLoop"
            /\ original_shape' = shape
            /\ UNCHANGED error
    /\ UNCHANGED <<build, args, level, cur_shape, ix, iy, iz, levels_info,
                   all_bricks, files, manifest>>

\* one iteration head of "for level in range(num_levels)": downsampling,
\* brick counts, the LevelInfo record
BeginLevel ==
    /\ pc = "LevelLoop"
    /\ level < num_levels
    /\ IF Len(original_shape) # 3
       THEN \* "nx, ny, nz = current_data.shape" raises ValueError
            /\ pc' = "Aborted"
            /\ error' = "ValueError"
            /\ UNCHANGED <<level, cur_shape, levels_info>>
       ELSE LET sf == Pow2(level)
                cs == IF level > 0 THEN DownsampleShape(original_shape, sf)
                                   ELSE original_shape
                nb == NumBricks(cs, brick_size)
            IN  /\ cur_shape' = cs
                /\ UNCHANGED error
                /\ levels_info' = Append(levels_info,
                       [level        |-> level,
                        scale_factor |-> sf,
                        dimensions   |-> cs,
                        brick_size   |-> brick_size,
                        num_bricks   |-> nb,
                        total_bricks |-> Prod(nb)])
                /\ IF Prod(nb) = 0
                   THEN /\ level' = level + 1
                        /\ pc' = "LevelLoop"
                   ELSE /\ level' = level
                        /\ pc' = "BrickOpen"
    /\ ix' = 0 /\ iy' = 0 /\ iz' = 0
    /\ UNCHANGED <<build, args, original_shape, all_bricks, files, manifest>>

\* open(filepath, 'wb'): the file is created, or truncated when it exists
BrickOpen ==
    /\ pc = "BrickOpen"
    /\ LET p == FileName(level, ix, iy, iz)
       IN  files' = [q \in DOMAIN files \cup {p} |->
                       IF q = p THEN [len |-> 0, hdr |-> << >>, by |-> build,
                                      at |-> <<level, ix, iy, iz>>]
                       ELSE files[q]]
    /\ pc' = "BrickHeader"
    /\ UNCHANGED <<build, args, locals, manifest, error>>

\* the header written in z, y, x order
BrickHeaderZYX ==
    /\ pc = "BrickHeader"
    /\ LET p == FileName(level, ix, iy, iz)
           e == BrickShape(ix, iy, iz, brick_size, cur_shape)
       IN  files' = [files EXCEPT ![p] =
                       [len |-> HeaderBytes,
                        hdr |-> <<e[3], e[2], e[1]>>,
                        by  |-> build,
                        at  |-> <<level, ix, iy, iz>>]]
    /\ pc' = "BrickPayload"
    /\ UNCHANGED <<build, args, locals, manifest, error>>

\* header.tofile(f)
BrickHeader ==
    /\ pc = "BrickHeader"
    /\ LET p == FileName(level, ix, iy, iz)
       IN  files' = [files EXCEPT ![p] =
                       [len |-> HeaderBytes,
                        hdr |-> BrickShape(ix, iy, iz, brick_size, cur_shape),
                        by  |-> build,
                        at  |-> <<level, ix, iy, iz>>]]
    /\ pc' = "BrickPayload"
    /\ UNCHANGED <<build, args, locals, manifest, error>>

\* the brick loops nested the other way round: ix varies fastest
BrickPayloadXFastest ==
    /\ pc = "BrickPayload"
    /\ LET p  == FileName(level, ix, iy, iz)
           n  == PayloadSamples(BrickShape(ix, iy, iz, brick_size, cur_shape), brick_size)
           sz == files[p].len + SampleBytes * n
           nb == NumBricks(cur_shape, brick_size)
       IN  /\ files' = [files EXCEPT ![p].len = sz]
           /\ all_bricks' = Append(all_bricks,
                  [level |-> level, x |-> ix, y |-> iy, z |-> iz,
                   filename |-> p, byte_size |-> sz])
           /\ IF ix + 1 < nb[1]
              THEN /\ ix' = ix + 1
                   /\ UNCHANGED <<iy, iz, level>>
                   /\ pc' = "BrickOpen"
              ELSE IF iy + 1 < nb[2]
              THEN /\ ix' = 0 /\ iy' = iy + 1
                   /\ UNCHANGED <<iz, level>>
                   /\ pc' = "BrickOpen"
              ELSE IF iz + 1 < nb[3]
              THEN /\ ix' = 0 /\ iy' = 0 /\ iz' = iz + 1
                   /\ UNCHANGED level
                   /\ pc' = "BrickOpen"
              ELSE /\ iz' = 0 /\ iy' = 0 /\ ix' = 0
                   /\ level' = level + 1
                   /\ pc' = "LevelLoop"
    /\ UNCHANGED <<build, args, original_shape, cur_shape, levels_info, manifest, error>>

\* the brick written without the brick loops stepping: the same coordinate
\* is opened again
BrickPayloadNoAdvance ==
    /\ pc = "BrickPayload"
    /\ LET p  == FileName(level, ix, iy, iz)
           n  == PayloadSamples(BrickShape(ix, iy, iz, brick_size, cur_shape), brick_size)
       IN  files' = [files EXCEPT ![p].len = files[p].len + SampleBytes * n]
    /\ pc' = "BrickOpen"
    /\ UNCHANGED <<build, args, locals, manifest, error>>

\* brick_data.tofile(f), the close of the file, os.path.getsize, the
\* BrickInfo record and the step of the three brick loops
BrickPayload ==
    /\ pc = "BrickPayload"
    /\ LET p  == FileName(level, ix, iy, iz)
           n  == PayloadSamples(BrickShape(ix, iy, iz, brick_size, cur_shape), brick_size)
           sz == files[p].len + SampleBytes * n
           nb == NumBricks(cur_shape, brick_size)
       IN  /\ files' = [files EXCEPT ![p].len = sz]
           /\ all_bricks' = Append(all_bricks,
                  [level |-> level, x |-> ix, y |-> iy, z |-> iz,
                   filename |-> p, byte_size |-> sz])
           /\ IF iz + 1 < nb[3]
              THEN /\ iz' = iz + 1
                   /\ UNCHANGED <<ix, iy, level>>
                   /\ pc' = "BrickOpen"
              ELSE IF iy + 1 < nb[2]
              THEN /\ iz' = 0 /\ iy' = iy + 1
                   /\ UNCHANGED <<ix, level>>
                   /\ pc' = "BrickOpen"
              ELSE IF ix + 1 < nb[1]
              THEN /\ iz' = 0 /\ iy' = 0 /\ ix' = ix + 1
                   /\ UNCHANGED level
                   /\ pc' = "BrickOpen"
              ELSE /\ iz' = 0 /\ iy' = 0 /\ ix' = 0
                   /\ level' = level + 1
                   /\ pc' = "LevelLoop"
    /\ UNCHANGED <<build, args, original_shape, cur_shape, levels_info, manifest, error>>

\* the manifest opened without waiting for the level loop to be exhausted
ManifestOpenEarly ==
    /\ pc = "LevelLoop"
    /\ manifest' = [state |-> "partial", doc |-> << >>, by |-> build]
    /\ pc' = "ManifestDump"
    /\ UNCHANGED <<build, args, locals, files, error>>

\* the level loop is exhausted: the manifest dictionary is built and
\* open(manifest_path, 'w') creates or truncates manifest.json
ManifestOpen ==
    /\ pc = "LevelLoop"
    /\ level >= num_levels
    /\ manifest' = [state |-> "partial", doc |-> << >>, by |-> build]
    /\ pc' = "ManifestDump"
    /\ UNCHANGED <<build, args, locals, files, error>>

\* json.dump(manifest, f, indent=2) and the close of the file
ManifestDump ==
    /\ pc = "ManifestDump"
    /\ manifest' = [state |-> "complete", doc |-> ManifestDoc, by |-> build]
    /\ pc' = "Done"
    /\ UNCHANGED <<build, args, locals, files, error>>

\* an OSError raised by open, header.tofile or brick_data.tofile while a
\* brick is written leaves create_bricks; what is on disk stays as the
\* completed writes left it
BrickWriteFailure ==
    /\ pc \in {"BrickOpen", "BrickHeader", "BrickPayload"}
    /\ pc' = "Aborted"
    /\ error' = "BrickWriteFailure"
    /\ UNCHANGED <<build, args, locals, files, manifest>>

\* an OSError raised by open(manifest_path, 'w') or by json.dump
ManifestWriteFailure ==
    /\ \/ pc = "LevelLoop" /\ level >= num_levels
       \/ pc = "ManifestDump"
    /\ pc' = "Aborted"
    /\ error' = "ManifestWriteFailure"
    /\ UNCHANGED <<build, args, locals, files, manifest>>

\* the steps of Spec: those of create_bricks, the samples not followed
Next ==
    \/ CreateBricks /\ UNCHANGED samples
    \/ NormalizeData /\ UNCHANGED samples
    \/ BeginLevel /\ UNCHANGED samples
    \/ BrickOpen /\ UNCHANGED samples
    \/ BrickHeader /\ UNCHANGED samples
    \/ BrickPayload /\ UNCHANGED samples
    \/ ManifestOpen /\ UNCHANGED samples
    \/ ManifestDump /\ UNCHANGED samples
    \/ BrickWriteFailure /\ UNCHANGED samples
    \/ ManifestWriteFailure /\ UNCHANGED samples

Spec == Init /\ [][Next]_vars

\* the steps of a call of create_bricks once it is entered: every step of
\* Next but the call itself
Step ==
    \/ NormalizeData /\ UNCHANGED samples
    \/ BeginLevel /\ UNCHANGED samples
    \/ BrickOpen /\ UNCHANGED samples
    \/ BrickHeader /\ UNCHANGED samples
    \/ BrickPayload /\ UNCHANGED samples
    \/ ManifestOpen /\ UNCHANGED samples
    \/ ManifestDump /\ UNCHANGED samples
    \/ BrickWriteFailure /\ UNCHANGED samples
    \/ ManifestWriteFailure /\ UNCHANGED samples

\* create_bricks is sequential, synchronous code: once called it keeps
\* executing, each statement returning or raising; whether it is called
\* (again) is up to the caller
FairSpec == Init /\ [][Next]_vars /\ WF_vars(Step)

TypeOK ==
    /\ pc \in {"Idle", "Normalizing", "LevelLoop", "BrickOpen", "BrickHeader",
               "BrickPayload", "ManifestDump", "Done", "Aborted"}
    /\ build \in 0..MaxBuilds
    /\ level \in 0..MaxLevels

\* ---- the samples ----
\* A volume of samples is a record [den, num]: the sample at index u is the
\* rational num[u] / den, so that percentiles, the rescaling and the block
\* means are exact.

Max(a, b) == IF a >= b THEN a ELSE b

\* the indices of an array of shape s
Indices(s) ==
    {<<x, y, z>> : x \in 0..(s[1] - 1), y \in 0..(s[2] - 1), z \in 0..(s[3] - 1)}

\* the sum of the first t samples, in row-major order, of the block of side
\* factor of f at index w
RECURSIVE BlockTotal(_, _, _, _)
BlockTotal(f, w, factor, t) ==
    IF t = 0 THEN 0
    ELSE f[<<w[1] * factor + (t - 1) \div (factor * factor),
             w[2] * factor + (((t - 1) \div factor) % factor),
             w[3] * factor + ((t - 1) % factor)>>]
         + BlockTotal(f, w, factor, t - 1)

\* the k-th smallest sample (k from 0) of the flattened array d
KthSmallest(d, k) ==
    CHOOSE v \in {d[u] : u \in DOMAIN d} :
        /\ Cardinality({u \in DOMAIN d : d[u] < v}) <= k
        /\ k < Cardinality({u \in DOMAIN d : d[u] <= v})

\* 100 * np.percentile(d, q): linear interpolation at position q/100 * (n-1)
Percentile100(d, q) ==
    LET n  == Cardinality(DOMAIN d)
        h  == (n - 1) * q
        lo == h \div 100
        hi == Min(lo + 1, n - 1)
    IN  100 * KthSmallest(d, lo) + (h % 100) * (KthSmallest(d, hi) - KthSmallest(d, lo))

\* 100 * np.clip(d, p1, p99)
Clipped100(d) ==
    LET p1  == Percentile100(d, 1)
        p99 == Percentile100(d, 99)
    IN  [u \in DOMAIN d |-> Min(Max(100 * d[u], p1), p99)]

\* normalize_data with the degenerate range returning the clipped samples
NormalizeValuesKeepDegenerate(d) ==
    LET c    == Clipped100(d)
        dmin == CHOOSE v \in {c[u] : u \in DOMAIN d} : \A u \in DOMAIN d : v <= c[u]
        dmax == CHOOSE v \in {c[u] : u \in DOMAIN d} : \A u \in DOMAIN d : v >= c[u]
    IN  IF dmax - dmin > 0
        THEN [den |-> dmax - dmin,
              num |-> [u \in DOMAIN d |-> 2 * (c[u] - dmin) - (dmax - dmin)]]
        ELSE [den |-> 100, num |-> c]

\* normalize_data without the "- 1"
NormalizeValuesNoShift(d) ==
    LET c    == Clipped100(d)
        dmin == CHOOSE v \in {c[u] : u \in DOMAIN d} : \A u \in DOMAIN d : v <= c[u]
        dmax == CHOOSE v \in {c[u] : u \in DOMAIN d} : \A u \in DOMAIN d : v >= c[u]
    IN  IF dmax - dmin > 0
        THEN [den |-> dmax - dmin,
              num |-> [u \in DOMAIN d |-> 2 * (c[u] - dmin)]]
        ELSE [den |-> 1, num |-> [u \in DOMAIN d |-> 0]]

\* the samples of normalize_data(d)
NormalizeValues(d) ==
    LET c    == Clipped100(d)
        dmin == CHOOSE v \in {c[u] : u \in DOMAIN d} : \A u \in DOMAIN d : v <= c[u]
        dmax == CHOOSE v \in {c[u] : u \in DOMAIN d} : \A u \in DOMAIN d : v >= c[u]
    IN  IF dmax - dmin > 0
        THEN [den |-> dmax - dmin,
              num |-> [u \in DOMAIN d |-> 2 * (c[u] - dmin) - (dmax - dmin)]]
        ELSE [den |-> 1, num |-> [u \in DOMAIN d |-> 0]]

\* downsample_volume that sums the blocks and does not divide
DownsampleValuesNoMean(vol, s, factor) ==
    IF factor <= 1 THEN vol
    ELSE [den |-> vol.den,
          num |-> [w \in Indices(DownsampleShape(s, factor)) |->
                      BlockTotal(vol.num, w, factor, factor * factor * factor)]]

\* the samples of downsample_volume(vol, factor), vol of shape s
DownsampleValues(vol, s, factor) ==
    IF factor <= 1 THEN vol
    ELSE [den |-> vol.den * factor * factor * factor,
          num |-> [w \in Indices(DownsampleShape(s, factor)) |->
                      BlockTotal(vol.num, w, factor, factor * factor * factor)]]

\* the samples written with the z index slowest and the x index fastest
BrickSamplesXFastest(cur, cx, cy, cz, bs, s) ==
    LET bshape == BrickShape(cx, cy, cz, bs, s)
        x0 == SliceBounds(cx, bs[1], s[1])[1]
        y0 == SliceBounds(cy, bs[2], s[2])[1]
        z0 == SliceBounds(cz, bs[3], s[3])[1]
        sh == IF bshape # bs THEN bs ELSE bshape
    IN  [den |-> cur.den,
         seq |-> [t \in 1..Prod(sh) |->
                     LET a == (t - 1) % sh[1]
                         b == ((t - 1) \div sh[1]) % sh[2]
                         c == (t - 1) \div (sh[1] * sh[2])
                     IN  IF a < bshape[1] /\ b < bshape[2] /\ c < bshape[3]
                         THEN cur.num[<<x0 + a, y0 + b, z0 + c>>]
                         ELSE 0]]

\* the samples brick_data.tofile writes for brick (cx, cy, cz) of the level
\* volume cur of shape s: the slice, padded with zeros to bs when it is
\* smaller, in row-major order
BrickSamples(cur, cx, cy, cz, bs, s) ==
    LET bshape == BrickShape(cx, cy, cz, bs, s)
        x0 == SliceBounds(cx, bs[1], s[1])[1]
        y0 == SliceBounds(cy, bs[2], s[2])[1]
        z0 == SliceBounds(cz, bs[3], s[3])[1]
    IN  IF bshape # bs
        THEN [den |-> cur.den,
              seq |-> [t \in 1..Prod(bs) |->
                          LET a == (t - 1) \div (bs[2] * bs[3])
                              b == ((t - 1) \div bs[3]) % bs[2]
                              c == (t - 1) % bs[3]
                          IN  IF a < bshape[1] /\ b < bshape[2] /\ c < bshape[3]
                              THEN cur.num[<<x0 + a, y0 + b, z0 + c>>]
                              ELSE 0]]
        ELSE [den |-> cur.den,
              seq |-> [t \in 1..Prod(bshape) |->
                          cur.num[<<x0 + (t - 1) \div (bshape[2] * bshape[3]),
                                    y0 + (((t - 1) \div bshape[3]) % bshape[2]),
                                    z0 + ((t - 1) % bshape[3])>>]]]

\* the input volumes DataSpec follows, for a shape s: a constant volume, a
\* volume whose samples are all different, one with two values and one
\* with a single outlier
DataVolumes(s) ==
    {[u \in Indices(s) |-> 10],
     [u \in Indices(s) |-> (u[1] * s[2] + u[2]) * s[3] + u[3] - 3],
     [u \in Indices(s) |-> (u[1] + u[2] + u[3]) % 2],
     [u \in Indices(s) |-> IF u = <<0, 0, 0>> THEN 7 ELSE 0]}

\* initial state of DataSpec: a valid input volume and its samples; the
\* samples of a level do not depend on the levels after it, so the build
\* with the most levels stands for the shorter ones
DataInit ==
    /\ NoCall
    /\ num_levels = MaxLevels
    /\ Len(shape) = 3
    /\ \A a \in 1..3 : shape[a] >= 1
    /\ data \in DataVolumes(shape)
    /\ normalized = << >>
    /\ current_data = << >>
    /\ payloads = << >>
    /\ norm_calls = 0

\* entry of create_bricks, for the one build DataSpec follows
DataCreateBricks ==
    /\ pc = "Idle"
    /\ CreateBricks
    /\ UNCHANGED samples

\* data = normalize_data(data); current_data = data
DataNormalize ==
    /\ NormalizeData
    /\ normalized' = NormalizeValues(data)
    /\ current_data' = normalized'
    /\ norm_calls' = norm_calls + 1
    /\ UNCHANGED <<data, payloads>>

\* current_data = downsample_volume(data, scale_factor) when level > 0
DataBeginLevel ==
    /\ BeginLevel
    /\ current_data' = IF level > 0
                       THEN DownsampleValues(normalized, original_shape, Pow2(level))
                       ELSE current_data
    /\ UNCHANGED <<data, normalized, payloads, norm_calls>>

DataBrickOpen ==
    /\ BrickOpen
    /\ LET p == FileName(level, ix, iy, iz)
       IN  payloads' = [q \in DOMAIN payloads \cup {p} |->
                          IF q = p THEN << >> ELSE payloads[q]]
    /\ UNCHANGED <<data, normalized, current_data, norm_calls>>

DataBrickHeader ==
    /\ BrickHeader
    /\ UNCHANGED samples

DataBrickPayload ==
    /\ BrickPayload
    /\ payloads' = [payloads EXCEPT ![FileName(level, ix, iy, iz)] =
                       BrickSamples(current_data, ix, iy, iz, brick_size, cur_shape)]
    /\ UNCHANGED <<data, normalized, current_data, norm_calls>>

DataManifestOpen ==
    /\ ManifestOpen
    /\ UNCHANGED samples

DataManifestDump ==
    /\ ManifestDump
    /\ UNCHANGED samples

\* the steps of DataSpec: one build in which no write fails
DataNext ==
    \/ DataCreateBricks
    \/ DataNormalize
    \/ DataBeginLevel
    \/ DataBrickOpen
    \/ DataBrickHeader
    \/ DataBrickPayload
    \/ DataManifestOpen
    \/ DataManifestDump

DataSpec == DataInit /\ [][DataNext]_vars

\* ---- vocabulary of the properties ----

\* length of a brick file that holds its whole header and whole payload
FullBrickBytes(bs) == HeaderBytes + SampleBytes * Prod(bs)

\* ceil(n / b) and floor(n / b), stated without the code's arithmetic
CeilDiv(n, b) == CHOOSE q \in 0..n : q * b >= n /\ (q = 0 \/ (q - 1) * b < n)
FloorDiv(n, b) == CHOOSE q \in 0..n : q * b <= n /\ n < (q + 1) * b

GridCoords(nb) ==
    {<<a, b, c>> : a \in 0..(nb[1] - 1), b \in 0..(nb[2] - 1), c \in 0..(nb[3] - 1)}

Voxels(d) ==
    {<<x, y, z>> : x \in 0..(d[1] - 1), y \in 0..(d[2] - 1), z \in 0..(d[3] - 1)}

\* the brick file at path p was written, whole, by the running call
CompleteNow(p) ==
    /\ p \in DOMAIN files
    /\ files[p].by = build
    /\ files[p].len = FullBrickBytes(brick_size)

\* every brick of level k was written, whole, by the running call
LevelComplete(k) ==
    /\ k + 1 <= Len(levels_info)
    /\ \A c \in GridCoords(levels_info[k + 1].num_bricks) :
           CompleteNow(FileName(k, c[1], c[2], c[3]))

\* the source region of the brick of record b in the level of record li
SourceRegion(b, li) ==
    LET sx == SliceBounds(b.x, li.brick_size[1], li.dimensions[1])
        sy == SliceBounds(b.y, li.brick_size[2], li.dimensions[2])
        sz == SliceBounds(b.z, li.brick_size[3], li.dimensions[3])
    IN  {<<x, y, z>> : x \in sx[1]..(sx[2] - 1), y \in sy[1]..(sy[2] - 1),
                       z \in sz[1]..(sz[2] - 1)}

BricksOfLevel(bricks, k) == {i \in 1..Len(bricks) : bricks[i].level = k}

\* ---- the claims ----

\* C1: the phases of a build occur in the order Normalizing, the levels in
\* ascending order, WritingManifest, Done: a brick file is written by the
\* running call only after normalize_data returned, a brick of a level only
\* after every brick of every lower level is written whole, and manifest.json
\* is touched only after every brick of every level is written whole.
PhaseOrder ==
    /\ \A p \in DOMAIN files :
           files[p].by = build =>
               /\ original_shape = shape
               /\ pc \notin {"Idle", "Normalizing"}
               /\ files[p].at[1] <= level
    /\ \A k \in 0..(num_levels - 1) :
           (\E p \in DOMAIN files : files[p].by = build /\ files[p].at[1] > k)
               => LevelComplete(k)
    /\ (manifest.state # "absent" /\ manifest.by = build) =>
           /\ pc \in {"ManifestDump", "Done", "Aborted"}
           /\ Len(levels_info) = num_levels
           /\ \A k \in 0..(num_levels - 1) : LevelComplete(k)
    /\ pc = "Done" => (manifest.state = "complete" /\ manifest.by = build)

PhaseOrderWitness ==
    /\ pc = "Done"
    /\ num_levels = 2
    /\ manifest.by = build
    /\ \E i \in 1..Len(all_bricks) : all_bricks[i].level = 1
    /\ \E i \in 1..Len(all_bricks) : all_bricks[i].level = 0 /\ all_bricks[i].x > 0

\* C2: whenever manifest.json exists and can be read, every brick path it
\* lists resolves to a complete brick file (12-byte header and the whole
\* nominal-size payload).
ManifestBricksComplete ==
    manifest.state = "complete" =>
        \A i \in 1..Len(manifest.doc.bricks) :
            LET p == manifest.doc.bricks[i].filename
            IN  /\ p \in DOMAIN files
                /\ files[p].len = FullBrickBytes(manifest.doc.brick_size)

\* C3: when the write of a brick file fails the build aborts: no manifest is
\* written by this build and a reader that takes the existence of
\* manifest.json as the completion signal does not see the partial build.
AbortedBuildNotSignalled ==
    (pc = "Aborted" /\ error = "BrickWriteFailure") =>
        /\ manifest.by # build
        /\ manifest.state = "absent"

\* the part of C3 that is about this call alone: after a failed brick write
\* the call wrote no manifest and the bricks it recorded are still on disk
AbortKeepsBricksAndWritesNoManifest ==
    (pc = "Aborted" /\ error = "BrickWriteFailure") =>
        /\ manifest.by # build
        /\ \A i \in 1..Len(all_bricks) : CompleteNow(all_bricks[i].filename)

\* C4: manifest.json is either absent or holds the complete document.
ManifestNeverPartial == manifest.state \in {"absent", "complete"}

\* C5: a brick file at its final path is either absent or holds the whole
\* header and the whole payload.
BrickFilesAtomic ==
    \A p \in DOMAIN files : files[p].len = FullBrickBytes(brick_size)

\* C6: when a level is finished, the source regions of its bricks tile the
\* level volume exactly: no region reaches outside the volume and every voxel
\* lies in exactly one region.
ExactTiling ==
    pc \in {"LevelLoop", "Done"} =>
        \A n \in 1..Len(levels_info) :
            LET li == levels_info[n]
                B  == BricksOfLevel(all_bricks, li.level)
            IN  /\ \A i \in B : SourceRegion(all_bricks[i], li) \subseteq Voxels(li.dimensions)
                /\ \A v \in Voxels(li.dimensions) :
                       Cardinality({i \in B : v \in SourceRegion(all_bricks[i], li)}) = 1

ExactTilingWitness ==
    /\ pc = "Done"
    /\ shape = <<3, 3, 2>>
    /\ brick_size = <<2, 1, 2>>
    /\ num_levels = 2
    /\ Len(all_bricks) = 7

\* C7: in the manifest of a completed build the Brick records of a level are
\* exactly the grid coordinates below ceil(n/b) on each axis, each once; every
\* (level, x, y, z) is unique in the flat list, num_bricks holds the three
\* counts and total_bricks is the number of Brick records of the level.
BrickGridDense ==
    pc = "Done" =>
        LET d == manifest.doc
        IN  /\ \A n \in 1..Len(d.levels) :
                   LET li == d.levels[n]
                       B  == BricksOfLevel(d.bricks, li.level)
                   IN  /\ li.num_bricks = <<CeilDiv(li.dimensions[1], li.brick_size[1]),
                                            CeilDiv(li.dimensions[2], li.brick_size[2]),
                                            CeilDiv(li.dimensions[3], li.brick_size[3])>>
                       /\ \A c \in GridCoords(li.num_bricks) :
                              Cardinality({i \in B : <<d.bricks[i].x, d.bricks[i].y,
                                                       d.bricks[i].z>> = c}) = 1
                       /\ \A i \in B : <<d.bricks[i].x, d.bricks[i].y, d.bricks[i].z>>
                                           \in GridCoords(li.num_bricks)
                       /\ li.total_bricks = Cardinality(B)
            /\ \A i, j \in 1..Len(d.bricks) :
                   (d.bricks[i].level = d.bricks[j].level /\ d.bricks[i].x = d.bricks[j].x
                    /\ d.bricks[i].y = d.bricks[j].y /\ d.bricks[i].z = d.bricks[j].z) => i = j
            /\ \A i \in 1..Len(d.bricks) :
                   \E n \in 1..Len(d.levels) : d.levels[n].level = d.bricks[i].level

BrickGridDenseWitness ==
    /\ manifest.state = "complete"
    /\ manifest.by = build
    /\ Len(manifest.doc.levels) = 2
    /\ manifest.doc.levels[1].num_bricks = <<2, 3, 1>>
    /\ manifest.doc.levels[2].total_bricks = 1
    /\ Len(manifest.doc.bricks) = 7

\* the sum of the byte_size fields of the records at the positions in I
RECURSIVE SumOver(_, _)
SumOver(bricks, I) ==
    IF I = {} THEN 0
    ELSE LET i == CHOOSE j \in I : TRUE
         IN  bricks[i].byte_size + SumOver(bricks, I \ {i})

\* C8: in the manifest of a completed build total_size_bytes is the sum of
\* the byte_size fields of all Brick records of all levels.
TotalSizeIsSum ==
    pc = "Done" =>
        manifest.doc.total_size_bytes =
            SumOver(manifest.doc.bricks, 1..Len(manifest.doc.bricks))

TotalSizeIsSumWitness ==
    /\ manifest.state = "complete"
    /\ manifest.by = build
    /\ \E i \in 1..Len(manifest.doc.bricks) : manifest.doc.bricks[i].level = 1
    /\ manifest.doc.total_size_bytes = 5 * FullBrickBytes(<<2, 2, 1>>)

\* C9: every brick file whose write completed, interior or edge, at any
\* level, is 12 + 4*bx*by*bz bytes long for the nominal brick size, whatever
\* its actual extent, and its byte_size in the record and in the manifest is
\* that number.
BrickLengthNominal ==
    /\ \A i \in 1..Len(all_bricks) :
           LET b == all_bricks[i]
           IN  /\ b.byte_size = HeaderBytes + SampleBytes * brick_size[1] * brick_size[2] * brick_size[3]
               /\ b.filename \in DOMAIN files
               /\ files[b.filename].by = build
               /\ files[b.filename].len = b.byte_size
    /\ pc = "Done" =>
           \A i \in 1..Len(manifest.doc.bricks) :
               manifest.doc.bricks[i].byte_size =
                   HeaderBytes + SampleBytes * manifest.doc.brick_size[1]
                       * manifest.doc.brick_size[2] * manifest.doc.brick_size[3]

BrickLengthNominalWitness ==
    /\ pc = "Done"
    /\ brick_size = <<2, 2, 2>>
    /\ \E i \in 1..Len(all_bricks) : files[all_bricks[i].filename].hdr = <<2, 2, 2>>
    /\ \E i \in 1..Len(all_bricks) : files[all_bricks[i].filename].hdr = <<1, 2, 1>>
    /\ \E i \in 1..Len(all_bricks) :
           all_bricks[i].level = 1 /\ files[all_bricks[i].filename].hdr = <<1, 1, 1>>

\* C10: the dimensions recorded for level k are floor(d / 2^k) on each axis,
\* d being the dimension of level 0, and the dimensions of level 0 are those
\* of the normalized input volume.
PyramidDimensions ==
    \A n \in 1..Len(levels_info) :
        /\ levels_info[n].level = n - 1
        /\ levels_info[1].dimensions = shape
        /\ levels_info[1].dimensions = original_shape
        /\ \A a \in 1..3 :
               levels_info[n].dimensions[a] =
                   FloorDiv(levels_info[1].dimensions[a], Pow2(n - 1))

PyramidDimensionsWitness ==
    /\ pc = "Done"
    /\ Len(levels_info) = 2
    /\ levels_info[1].dimensions = <<3, 2, 1>>
    /\ levels_info[2].dimensions = <<1, 1, 0>>

\* C11: the build never silently produces an empty level: a Level record has
\* at least one voxel on every axis (a level that truncation empties is
\* produced non-empty or left out).
NoEmptyLevel ==
    \A n \in 1..Len(levels_info) :
        /\ \A a \in 1..3 : levels_info[n].dimensions[a] >= 1
        /\ levels_info[n].total_bricks >= 1

\* the input volume is invalid: not 3-dimensional, or a zero-length axis
InvalidVolume == Len(shape) # 3 \/ \E a \in 1..Len(shape) : shape[a] = 0

\* C17: for an invalid input volume the build aborts, whatever num_levels
\* and the brick size, and writes no manifest.
InvalidVolumeAborts ==
    InvalidVolume =>
        /\ pc \notin {"ManifestDump", "Done"}
        /\ ~(manifest.state # "absent" /\ manifest.by = build)

\* what holds of the code for an invalid volume: it writes no brick, and it
\* aborts when an axis is empty or a level is asked for
InvalidVolumeWritesNoBrick ==
    InvalidVolume =>
        /\ \A p \in DOMAIN files : files[p].by # build
        /\ (pc = "Done" => (num_levels = 0 /\ \A a \in 1..Len(shape) : shape[a] > 0))

\* C18: in the manifest of a completed build the levels list has num_levels
\* records in ascending order, the record at position k has level k and
\* scale factor 2^k, and the num_levels field is the length of the list.
LevelsListOrdered ==
    pc = "Done" =>
        LET d == manifest.doc
        IN  /\ Len(d.levels) = num_levels
            /\ d.num_levels = Len(d.levels)
            /\ \A n \in 1..Len(d.levels) :
                   /\ d.levels[n].level = n - 1
                   /\ d.levels[n].scale_factor =
                          (IF n = 1 THEN 1 ELSE 2 * d.levels[n - 1].scale_factor)

LevelsListOrderedWitness ==
    /\ pc = "Done"
    /\ Len(manifest.doc.levels) = 2
    /\ manifest.doc.levels[2].scale_factor = 2
    /\ manifest.doc.levels[2].total_bricks > 0

\* C19: the filename of the record of brick (level, ix, iy, iz) is
\* level_<level>/brick_<ix>_<iy>_<iz>.bin, the file of that brick was written
\* at that path and no other brick of the build has written over it; two
\* records never share a path.
FileNameFromCoordinates ==
    /\ \A i \in 1..Len(all_bricks) :
           LET b == all_bricks[i]
           IN  /\ b.filename = "level_" \o ToString(b.level) \o "/brick_" \o ToString(b.x)
                                   \o "_" \o ToString(b.y) \o "_" \o ToString(b.z) \o ".bin"
               /\ b.filename \in DOMAIN files
               /\ files[b.filename].by = build
               /\ files[b.filename].at = <<b.level, b.x, b.y, b.z>>
               /\ files[b.filename].len = b.byte_size
    /\ pc \in {"Done", "Aborted"} =>
           \A i, j \in 1..Len(all_bricks) :
               all_bricks[i].filename = all_bricks[j].filename => i = j
    /\ pc = "Done" => manifest.doc.bricks = all_bricks

FileNameFromCoordinatesWitness ==
    /\ pc = "Done"
    /\ \E i \in 1..Len(all_bricks) : all_bricks[i].filename = "level_0/brick_1_2_0.bin"
    /\ \E i \in 1..Len(all_bricks) : all_bricks[i].filename = "level_0/brick_1_0_2.bin"
    /\ \E i \in 1..Len(all_bricks) : all_bricks[i].filename = "level_1/brick_0_0_0.bin"

\* the position of brick c of level k in the order: ascending level, then
\* ix, then iy, then iz
RECURSIVE BricksBelow(_)
BricksBelow(k) ==
    IF k = 0 THEN 0
    ELSE Prod(levels_info[k].num_bricks) + BricksBelow(k - 1)

OrderRank(k, c) ==
    LET nb == levels_info[k + 1].num_bricks
    IN  BricksBelow(k) + (c[1] * nb[2] + c[2]) * nb[3] + c[3] + 1

\* C20: brick files are written and their records appended in the order
\* ascending level, then ix, then iy, then iz; at any moment, an abort
\* included, the bricks written so far are a prefix of that order, and the
\* brick list of the manifest is in that order.
WriteOrderPrefix ==
    /\ \A i \in 1..Len(all_bricks) :
           LET b == all_bricks[i]
           IN  /\ b.level + 1 <= Len(levels_info)
               /\ <<b.x, b.y, b.z>> \in GridCoords(levels_info[b.level + 1].num_bricks)
               /\ OrderRank(b.level, <<b.x, b.y, b.z>>) = i
    /\ \A p \in DOMAIN files :
           files[p].by = build =>
               LET r == OrderRank(files[p].at[1], Tail(files[p].at))
               IN  /\ r <= Len(all_bricks) + 1
                   /\ r <= Len(all_bricks) => all_bricks[r].filename = p
                   /\ r = Len(all_bricks) + 1 =>
                          pc \in {"BrickHeader", "BrickPayload", "Aborted"}
    /\ pc = "Done" => manifest.doc.bricks = all_bricks

WriteOrderPrefixWitness ==
    /\ pc = "Aborted"
    /\ error = "BrickWriteFailure"
    /\ levels_info[1].num_bricks = <<2, 2, 2>>
    /\ Len(levels_info) = 2
    /\ Len(all_bricks) = 8
    /\ \E p \in DOMAIN files : files[p].at = <<1, 0, 0, 0>> /\ files[p].len = HeaderBytes

\* ---- the claims about the samples, under DataSpec ----

\* the level whose samples current_data holds, once a level has begun
CurrentLevel == Len(levels_info) - 1

\* the records of the bricks of the level current_data holds; a level is
\* finished, and current_data still holds it, when pc is "LevelLoop"
CurrentBricks == {i \in 1..Len(all_bricks) : all_bricks[i].level = CurrentLevel}

\* position, from 1, of element (a, b, c) of a row-major array of shape bs
RowMajor(a, b, c, bs) == (a * bs[2] + b) * bs[3] + c + 1

\* C12: reading back the header and the payload of a written brick, taking
\* the payload as a row-major array of the nominal brick size and trimming it
\* to the extent of the header gives the samples of the level volume in the
\* source region of the brick.
RoundTrip ==
    (levels_info # << >> /\ pc = "LevelLoop") =>
        \A i \in CurrentBricks :
            LET b   == all_bricks[i]
                hdr == files[b.filename].hdr
                pl  == payloads[b.filename]
            IN  /\ Len(pl.seq) = Prod(brick_size)
                /\ pl.den = current_data.den
                /\ hdr \in (1..brick_size[1]) \X (1..brick_size[2]) \X (1..brick_size[3])
                /\ \A e \in Voxels(hdr) :
                       pl.seq[RowMajor(e[1], e[2], e[3], brick_size)] =
                           current_data.num[<<b.x * brick_size[1] + e[1],
                                              b.y * brick_size[2] + e[2],
                                              b.z * brick_size[3] + e[3]>>]

RoundTripWitness ==
    /\ pc = "LevelLoop"
    /\ level = 1
    /\ shape = <<3, 2, 3>>
    /\ brick_size = <<2, 1, 2>>
    /\ payloads["level_0/brick_1_1_1.bin"].seq = <<current_data.num[<<2, 1, 2>>], 0, 0, 0>>
    /\ current_data.num[<<2, 1, 2>>] # 0
    /\ payloads["level_0/brick_0_1_0.bin"].seq[3] > payloads["level_0/brick_0_1_0.bin"].seq[2]

\* C13: the header of brick (ix, iy, iz) holds the actual extent
\* min((i+1)*b, n) - i*b on x, y, z, each between 1 and the nominal size; the
\* payload has bx*by*bz samples, the source region at the low-index corner
\* and zero at every position outside the actual extent.
HeaderAndPadding ==
    (levels_info # << >> /\ pc = "LevelLoop") =>
        \A i \in CurrentBricks :
            LET b   == all_bricks[i]
                c   == <<b.x, b.y, b.z>>
                n   == levels_info[Len(levels_info)].dimensions
                hdr == files[b.filename].hdr
                pl  == payloads[b.filename]
            IN  /\ Len(hdr) = 3
                /\ \A a \in 1..3 :
                       /\ hdr[a] = (IF (c[a] + 1) * brick_size[a] <= n[a]
                                    THEN (c[a] + 1) * brick_size[a] ELSE n[a])
                                   - c[a] * brick_size[a]
                       /\ 1 <= hdr[a]
                       /\ hdr[a] <= brick_size[a]
                /\ Len(pl.seq) = brick_size[1] * brick_size[2] * brick_size[3]
                /\ \A e \in Voxels(brick_size) :
                       IF e \in Voxels(hdr)
                       THEN pl.seq[RowMajor(e[1], e[2], e[3], brick_size)] =
                                current_data.num[<<c[1] * brick_size[1] + e[1],
                                                   c[2] * brick_size[2] + e[2],
                                                   c[3] * brick_size[3] + e[3]>>]
                       ELSE pl.seq[RowMajor(e[1], e[2], e[3], brick_size)] = 0

HeaderAndPaddingWitness ==
    /\ pc = "LevelLoop"
    /\ level = 1
    /\ shape = <<3, 3, 3>>
    /\ brick_size = <<2, 2, 2>>
    /\ files["level_0/brick_1_1_1.bin"].hdr = <<1, 1, 1>>
    /\ payloads["level_0/brick_1_1_1.bin"].seq[1] > 0
    /\ \A t \in 2..8 : payloads["level_0/brick_1_1_1.bin"].seq[t] = 0

\* the input volume is constant
ConstantInput == \A u \in DOMAIN data : data[u] = data[<<0, 0, 0>>]

\* C14: for a non-degenerate input every sample normalize_data returns lies
\* in [-1, 1], the smallest samples of the input map to -1 and the largest
\* to 1; normalize_data is called once, on the full-resolution input, before
\* any level is derived.
NormalizedRange ==
    /\ norm_calls <= 1
    /\ (pc \notin {"Idle", "Normalizing"}) => norm_calls = 1
    /\ levels_info # << >> => normalized # << >>
    /\ normalized # << >> => norm_calls = 1
    /\ (pc = "LevelLoop" /\ level = 0) =>
           /\ DOMAIN normalized.num = Voxels(shape)
           /\ normalized.den > 0
           /\ \A u \in Voxels(shape) :
                  /\ -normalized.den <= normalized.num[u]
                  /\ normalized.num[u] <= normalized.den
           /\ ~ConstantInput =>
                  \A u \in Voxels(shape) :
                      /\ (\A w \in Voxels(shape) : data[u] <= data[w])
                             => normalized.num[u] = -normalized.den
                      /\ (\A w \in Voxels(shape) : data[u] >= data[w])
                             => normalized.num[u] = normalized.den

NormalizedRangeWitness ==
    /\ pc = "Done"
    /\ ~ConstantInput
    /\ shape = <<2, 3, 2>>
    /\ \E u \in Voxels(shape) : normalized.num[u] = -normalized.den
    /\ \E u \in Voxels(shape) : normalized.num[u] = normalized.den
    /\ \E u \in Voxels(shape) :
           0 < normalized.num[u] /\ normalized.num[u] < normalized.den

\* C15: for a constant input, whose clip range is a single value,
\* normalize_data does not fail and returns zeros of the shape of the input;
\* the build does not abort, it stops only in Done with every level recorded
\* and the manifest written, and every sample stored in a brick is 0.
ConstantInputZeroFilled ==
    ConstantInput =>
        /\ pc # "Aborted"
        /\ error = "none"
        /\ normalized # << >> =>
               /\ DOMAIN normalized.num = Voxels(shape)
               /\ \A u \in Voxels(shape) : normalized.num[u] = 0
        /\ \A p \in DOMAIN payloads :
               payloads[p] # << >> =>
                   \A t \in 1..Len(payloads[p].seq) : payloads[p].seq[t] = 0
        /\ pc = "Done" =>
               /\ manifest.state = "complete"
               /\ Len(manifest.doc.levels) = num_levels
               /\ \A i \in 1..Len(manifest.doc.bricks) :
                      LET pl == payloads[manifest.doc.bricks[i].filename]
                      IN  /\ Len(pl.seq) = Prod(brick_size)
                          /\ \A t \in 1..Len(pl.seq) : pl.seq[t] = 0
        /\ (~ENABLED DataNext) => pc = "Done"

ConstantInputZeroFilledWitness ==
    /\ ConstantInput
    /\ pc = "Done"
    /\ shape = <<2, 2, 2>>
    /\ data[<<0, 0, 0>>] = 10
    /\ brick_size = <<1, 1, 1>>
    /\ num_levels = 2
    /\ Len(manifest.doc.bricks) = 9

\* the sum of f over the set S of indices
RECURSIVE SumOverSet(_, _)
SumOverSet(f, S) ==
    IF S = {} THEN 0
    ELSE LET u == CHOOSE w \in S : TRUE
         IN  f[u] + SumOverSet(f, S \ {u})

\* the voxels of level 0 in [w*s, (w+1)*s) on each axis
Block(w, s) ==
    {u \in Voxels(shape) : \A a \in 1..3 : w[a] * s <= u[a] /\ u[a] < (w[a] + 1) * s}

Running == pc \notin {"Idle", "Done", "Aborted"}

\* the call returned with the manifest written, or left on a failure
Ended ==
    \/ /\ pc = "Done"
       /\ manifest.state = "complete"
       /\ manifest.by = build
    \/ /\ pc = "Aborted"
       /\ error # "none"

\* a step that opens a brick file opens one this build has not written and
\* not recorded; a step that fails ends the call
VisitOnce ==
    /\ (pc = "BrickOpen" /\ pc' = "BrickHeader") =>
          LET p == FileName(level, ix, iy, iz)
          IN  /\ p \in DOMAIN files => files[p].by # build
              /\ \A i \in 1..Len(all_bricks) :
                    <<all_bricks[i].level, all_bricks[i].x,
                      all_bricks[i].y, all_bricks[i].z>> # <<level, ix, iy, iz>>
              /\ files'[p].at = <<level, ix, iy, iz>>
    /\ (error' # error /\ error' # "none") => pc' = "Aborted"
    /\ pc = "Aborted" => pc' = "Aborted" /\ files' = files /\ manifest' = manifest

\* C21: every call of create_bricks terminates: it reaches Done with the
\* manifest written or aborts on a failure, it never stays in the level or
\* brick loops, and each brick coordinate is opened once, with no retry
BuildTerminates ==
    /\ Running ~> Ended
    /\ [][VisitOnce /\ (Running /\ ~Running' => Ended' /\ build' = build)]_vars

BuildTerminatesWitness ==
    /\ pc = "Done"
    /\ build = 1
    /\ Len(shape) = 3
    /\ num_levels = 2
    /\ shape = <<3, 3, 3>>
    /\ brick_size = <<1, 2, 2>>
    /\ Len(levels_info) = 2
    /\ Len(all_bricks) = 13
    /\ manifest.state = "complete"
====
